---- MODULE Spec2Model ----
(***************************************************************************)
(* MetamaskInpageProvider (src/unnamed/part_001, with the older variant of *)
(* the same class in src/index.js) as a state machine.                     *)
(*                                                                         *)
(* The provider is single threaded: every handler below runs to completion *)
(* before the next one starts, so each handler is one action.  The things  *)
(* the provider does not control are inputs: the loss of the connection    *)
(* stream, the frames the background sends (public config snapshots and    *)
(* JSON-RPC responses) and the calls the page makes.                       *)
(*                                                                         *)
(* JavaScript values are written as strings: UNDEFINED and NULL stand for  *)
(* undefined and null, ABSENT for a key an object does not have.           *)
(***************************************************************************)
EXTENDS Naturals, Sequences, FiniteSets

VARIABLES
    isConnected,        \* this._state.isConnected
    accounts,           \* this._state.accounts
    chainId,            \* this.chainId
    networkVersion,     \* this.networkVersion
    publicConfigStore,  \* this.publicConfigStore.getState()
    connectionStream,   \* the duplex stream given to the constructor
    connectTimer,       \* the setTimeout(() => this.emit('connect'))
    pumpsEnded,         \* the pumps whose completion callback has run
    idMap,              \* the requests the stream middleware waits a response for
    nextId,             \* the next identifier of the id remap middleware
    closeCount,         \* how many 'close' events the provider has emitted
    isUnlocked,         \* this._state.isUnlocked
    unlockWaiters,      \* the isUnlocked() calls waiting for an 'update' of the store
    batches,            \* the batches the engine has not answered yet
    batchCount,         \* how many batches were handed to the engine
    last                \* what the most recent handler did that a caller can see

vars == <<isConnected, accounts, chainId, networkVersion, publicConfigStore,
          connectionStream, connectTimer, pumpsEnded, idMap, nextId, closeCount,
          isUnlocked, unlockWaiters, batches, batchCount, last>>

\* The state only the experimental API (_metamask) reads or writes.
experimentalVars == <<isUnlocked, unlockWaiters, batches, batchCount>>

----------------------------------------------------------------------------
(* Bounds of the model.                                                    *)

MaxRequests == 2
MaxWaiters == 2
MaxBatches == 1
MaxBatchLen == 3

----------------------------------------------------------------------------
(* JavaScript values.                                                      *)

UNDEFINED == "undefined"
NULL == "null"
ABSENT == "absent"

\* `x || y`, `x ? a : b`: undefined, null and the empty string are falsy.
Truthy(v) == v \notin {UNDEFINED, NULL, ""}

\* state.key: a key the object does not have reads as undefined.
Get(state, key) == IF state[key] = ABSENT THEN UNDEFINED ELSE state[key]

\* 'key' in state
HasKey(state, key) == state[key] # ABSENT

\* A JSON value of a response: an array of strings, a string, null or true.
JsArray(items) == [tag |-> "array", items |-> items]
JsString(s) == [tag |-> "string", items |-> <<s>>]
JsNull == [tag |-> "null", items |-> <<>>]
JsTrue == [tag |-> "true", items |-> <<>>]

----------------------------------------------------------------------------
(* Events of the SafeEventEmitter.                                         *)

CloseCode == 1011
CloseReason == "MetaMask background communication error."

Event(name, data) == [name |-> name, code |-> 0, data |-> data]
CloseEvent == [name |-> "close", code |-> CloseCode, data |-> CloseReason]

\* How many events called `name` a handler emitted.
Count(events, name) ==
    Cardinality({i \in 1..Len(events) : events[i].name = name})

----------------------------------------------------------------------------
(* What a handler leaves for the caller to see.                            *)

NoReturn == [kind |-> "none", id |-> 0, jsonrpc |-> UNDEFINED, result |-> JsNull]
NoPayload == [method |-> UNDEFINED, id |-> 0, jsonrpc |-> UNDEFINED, params |-> ABSENT]
NoCallback == [called |-> FALSE, id |-> 0, method |-> UNDEFINED, error |-> "none",
               result |-> JsNull]
NoBatch == [isArray |-> FALSE, error |-> "none", items |-> <<>>]
NoPromise == [state |-> "none", error |-> "none", isArray |-> FALSE, items |-> <<>>]

Did(op, emitted) ==
    [op |-> op, emitted |-> emitted, payload |-> NoPayload, handled |-> FALSE,
     return |-> NoReturn, callback |-> NoCallback, resolved |-> <<>>,
     batch |-> NoBatch, engineCalls |-> <<>>, promise |-> NoPromise]

----------------------------------------------------------------------------
(* The constructor.                                                        *)

PumpNames == {"MetaMask", "MetaMask RpcProvider"}

EmptyState ==
    [chainId |-> ABSENT, networkVersion |-> ABSENT, selectedAddress |-> ABSENT,
     isUnlocked |-> ABSENT]

Init ==
    /\ isConnected = UNDEFINED
    /\ accounts = [defined |-> FALSE, list |-> <<>>]
    /\ chainId = UNDEFINED
    /\ networkVersion = UNDEFINED
    /\ publicConfigStore = EmptyState
    /\ connectionStream = "open"
    /\ connectTimer = "scheduled"
    /\ pumpsEnded = {}
    /\ idMap = <<>>
    /\ nextId = 1
    /\ closeCount = 0
    /\ isUnlocked = UNDEFINED
    /\ unlockWaiters = 0
    /\ batches = <<>>
    /\ batchCount = 0
    /\ last = Did("constructor", <<>>)

----------------------------------------------------------------------------
(* Connection lifecycle.                                                   *)

\* EmitConnect as a timer that is not a one-shot timer.
EmitConnectRepeating ==
    /\ connectTimer' = "fired"
    /\ isConnected' = "true"
    /\ last' = Did("connect", <<Event("connect", UNDEFINED)>>)
    /\ UNCHANGED <<accounts, chainId, networkVersion, publicConfigStore,
                   connectionStream, pumpsEnded, idMap, nextId, closeCount>>
    /\ UNCHANGED experimentalVars

\* setTimeout(() => this.emit('connect')) runs; the 'connect' listener of the
\* constructor sets the state to connected.
EmitConnect ==
    /\ connectTimer = "scheduled"
    /\ connectTimer' = "fired"
    /\ isConnected' = "true"
    /\ last' = Did("connect", <<Event("connect", UNDEFINED)>>)
    /\ UNCHANGED <<accounts, chainId, networkVersion, publicConfigStore,
                   connectionStream, pumpsEnded, idMap, nextId, closeCount>>
    /\ UNCHANGED experimentalVars

\* The connection stream ends or fails: nothing the provider runs, the pumps
\* notice it and call their callbacks later.
ConnectionLost ==
    /\ connectionStream = "open"
    /\ connectionStream' = "lost"
    /\ last' = Did("lost", <<>>)
    /\ UNCHANGED <<isConnected, accounts, chainId, networkVersion, publicConfigStore,
                   connectTimer, pumpsEnded, idMap, nextId, closeCount>>
    /\ UNCHANGED experimentalVars

\* DisconnectEvents without the test of the connection state.
DisconnectEventsAlways(connected) ==
    <<CloseEvent>>

\* The events _handleDisconnect emits.
DisconnectEvents(connected) ==
    IF connected = "true" THEN <<CloseEvent>> ELSE <<>>

\* _handleDisconnect(streamName, err), the callback of the connection pump
\* ('MetaMask') and of the provider-channel pump ('MetaMask RpcProvider').  pump
\* calls its callback once.
HandleDisconnect(streamName) ==
    /\ connectionStream = "lost"
    /\ streamName \notin pumpsEnded
    /\ pumpsEnded' = pumpsEnded \cup {streamName}
    /\ isConnected' = "false"
    /\ closeCount' = closeCount + Len(DisconnectEvents(isConnected))
    /\ last' = Did("disconnect", DisconnectEvents(isConnected))
    /\ UNCHANGED <<accounts, chainId, networkVersion, publicConfigStore,
                   connectionStream, connectTimer, idMap, nextId>>
    /\ UNCHANGED experimentalVars

----------------------------------------------------------------------------
(* Public config store.                                                    *)

ChainIds == {"0x1", "0x3"}
NetworkVersions == {"1", "3"}
Addresses == {"0xabc"}

\* The snapshots the background pushes on the publicConfig channel.
Snapshots ==
    [chainId : ChainIds \cup {ABSENT},
     networkVersion : NetworkVersions \cup {ABSENT},
     selectedAddress : Addresses \cup {NULL},
     isUnlocked : {ABSENT}]

\* The snapshots that also tell whether the wallet is unlocked.
UnlockSnapshots ==
    [chainId : {"0x1", ABSENT},
     networkVersion : {"1"},
     selectedAddress : Addresses,
     isUnlocked : {"true", "false", ABSENT}]

\* ChainChanged without the comparison with the held value.
ChainChangedAlways(state, held) ==
    HasKey(state, "chainId")

\* 'chainId' in state && state.chainId !== this.chainId
ChainChanged(state, held) ==
    HasKey(state, "chainId") /\ state.chainId # held

\* NetworkChanged that never sees a change.
NetworkChangedNever(state, held) == FALSE

\* 'networkVersion' in state && state.networkVersion !== this.networkVersion
NetworkChanged(state, held) ==
    HasKey(state, "networkVersion") /\ state.networkVersion # held

\* The events the subscriber of the store emits for one update, in order.
UpdateEvents(state, heldChainId, heldNetworkVersion) ==
    (IF ChainChanged(state, heldChainId)
        THEN <<Event("chainChanged", state.chainId),
               Event("chainIdChanged", state.chainId)>>
        ELSE <<>>)
    \o
    (IF NetworkChanged(state, heldNetworkVersion)
        THEN <<Event("networkChanged", state.networkVersion)>>
        ELSE <<>>)

\* A snapshot arrives on the publicConfig channel: asStream writes it to the
\* store with putState, which replaces the state and emits 'update': the
\* subscriber runs, and every isUnlocked() call waiting for the update resumes
\* and resolves with this._state.isUnlocked.
PutState(state) ==
    /\ connectionStream = "open"
    /\ publicConfigStore' = state
    /\ chainId' = IF ChainChanged(state, chainId) THEN state.chainId ELSE chainId
    /\ networkVersion' = IF NetworkChanged(state, networkVersion)
                            THEN state.networkVersion ELSE networkVersion
    /\ unlockWaiters' = 0
    /\ last' = [Did("update", UpdateEvents(state, chainId, networkVersion)) EXCEPT
                    !.resolved = [i \in 1..unlockWaiters |-> isUnlocked]]
    /\ UNCHANGED <<isConnected, accounts, connectionStream, connectTimer,
                   pumpsEnded, idMap, nextId, closeCount>>
    /\ UNCHANGED <<isUnlocked, batches, batchCount>>

----------------------------------------------------------------------------
(* Requests.                                                               *)

AccountsMethods == {"eth_accounts", "eth_requestAccounts"}

\* The methods _sendSync answers.
SyncMethods == {"eth_accounts", "eth_coinbase", "eth_uninstallFilter", "net_version"}

\* The requests the page makes with a callback.  The last two are malformed:
\* a method that is no non-empty string, params that are neither an object nor
\* an array.
AsyncPayloads ==
    [method : {"eth_accounts", "eth_requestAccounts", "eth_call"},
     id : {1}, jsonrpc : {"2.0"}, params : {"array"}]
    \cup
    { [method |-> "", id |-> 1, jsonrpc |-> "2.0", params |-> "array"],
      [method |-> "eth_call", id |-> 1, jsonrpc |-> "2.0", params |-> "string"] }

\* The requests the page makes without a callback.
SyncPayloads ==
    [method : SyncMethods \cup {"eth_sendTransaction"},
     id : {1}, jsonrpc : {"2.0"}, params : {"array"}]
    \cup
    [method : {"eth_accounts", "net_version"},
     id : {2}, jsonrpc : {UNDEFINED}, params : {"array"}]

\* Handle without the id remap middleware: the caller's identifier goes on the
\* wire.
HandleNoRemap(payload, cb) ==
    /\ idMap' = [w \in DOMAIN idMap \cup {payload.id} |->
                    IF w = payload.id
                       THEN [id |-> payload.id, method |-> payload.method, cb |-> cb]
                       ELSE idMap[w]]
    /\ nextId' = nextId + 1

\* rpcEngine.handle(payload, cb): the id remap middleware gives the request a
\* fresh identifier and keeps the caller's, the stream middleware writes the
\* request to the provider channel and keeps the callback until a response with
\* that identifier arrives.
Handle(payload, cb) ==
    /\ idMap' = [w \in DOMAIN idMap \cup {nextId} |->
                    IF w = nextId
                       THEN [id |-> payload.id, method |-> payload.method, cb |-> cb]
                       ELSE idMap[w]]
    /\ nextId' = nextId + 1

\* sendAsync(payload, cb), also reached by send(payload, callback).
SendAsync(payload) ==
    /\ nextId <= MaxRequests
    /\ Handle(payload, "user")
    /\ last' = [Did("sendAsync", <<>>) EXCEPT !.payload = payload, !.handled = TRUE]
    /\ UNCHANGED <<isConnected, accounts, chainId, networkVersion, publicConfigStore,
                   connectionStream, connectTimer, pumpsEnded, closeCount>>
    /\ UNCHANGED experimentalVars

\* SendSyncReturn with the selected address used without the test that it is
\* set, and SendSyncReturn without the default case of the switch.
SendSyncReturnUnchecked(payload, state, heldNetworkVersion) ==
    LET selectedAddress == Get(state, "selectedAddress")
        result ==
            CASE payload.method = "eth_accounts" -> JsArray(<<selectedAddress>>)
              [] payload.method = "eth_coinbase" -> JsString(selectedAddress)
              [] payload.method = "eth_uninstallFilter" -> JsTrue
              [] payload.method = "net_version" -> JsString(heldNetworkVersion)
              [] OTHER -> JsNull
    IN  IF payload.method \in {"eth_accounts", "eth_coinbase", "eth_uninstallFilter",
                                "net_version"}
           THEN [kind |-> "return", id |-> payload.id, jsonrpc |-> payload.jsonrpc,
                 result |-> result]
           ELSE [kind |-> "throw", id |-> 0, jsonrpc |-> UNDEFINED, result |-> JsNull]

SendSyncReturnNoDefault(payload, state, heldNetworkVersion) ==
    LET selectedAddress == Get(state, "selectedAddress")
        result ==
            CASE payload.method = "eth_accounts" ->
                    IF Truthy(selectedAddress)
                       THEN JsArray(<<selectedAddress>>) ELSE JsArray(<<>>)
              [] payload.method = "eth_coinbase" ->
                    IF Truthy(selectedAddress) THEN JsString(selectedAddress) ELSE JsNull
              [] payload.method = "eth_uninstallFilter" -> JsTrue
              [] payload.method = "net_version" ->
                    IF Truthy(heldNetworkVersion)
                       THEN JsString(heldNetworkVersion) ELSE JsNull
              [] OTHER -> JsNull
    IN  [kind |-> "return", id |-> payload.id, jsonrpc |-> payload.jsonrpc,
         result |-> result]

\* What _sendSync(payload) returns or throws.
SendSyncReturn(payload, state, heldNetworkVersion) ==
    LET selectedAddress == Get(state, "selectedAddress")
        result ==
            CASE payload.method = "eth_accounts" ->
                    IF Truthy(selectedAddress)
                       THEN JsArray(<<selectedAddress>>) ELSE JsArray(<<>>)
              [] payload.method = "eth_coinbase" ->
                    IF Truthy(selectedAddress) THEN JsString(selectedAddress) ELSE JsNull
              [] payload.method = "eth_uninstallFilter" -> JsTrue
              [] payload.method = "net_version" ->
                    IF Truthy(heldNetworkVersion)
                       THEN JsString(heldNetworkVersion) ELSE JsNull
              [] OTHER -> JsNull
    IN  IF payload.method \in SyncMethods
           THEN [kind |-> "return", id |-> payload.id, jsonrpc |-> payload.jsonrpc,
                 result |-> result]
           ELSE [kind |-> "throw", id |-> 0, jsonrpc |-> UNDEFINED, result |-> JsNull]

\* SendSyncDispatches with the call of sendAsync left out.
SendSyncDispatchesNever(payload) == FALSE

\* Whether _sendSync(payload) calls sendAsync(payload, () => {}).
SendSyncDispatches(payload) == payload.method = "eth_uninstallFilter"

\* send(payload) without a callback: _sendSync(payload).
SendSync(payload) ==
    /\ last' = [Did("sendSync", <<>>) EXCEPT
                    !.payload = payload,
                    !.handled = SendSyncDispatches(payload),
                    !.return = SendSyncReturn(payload, publicConfigStore, networkVersion)]
    /\ IF SendSyncDispatches(payload)
          THEN /\ nextId <= MaxRequests
               /\ Handle(payload, "noop")
          ELSE UNCHANGED <<idMap, nextId>>
    /\ UNCHANGED <<isConnected, accounts, chainId, networkVersion, publicConfigStore,
                   connectionStream, connectTimer, pumpsEnded, closeCount>>
    /\ UNCHANGED experimentalVars

\* The responses the background can give to a request.
Outcomes(method) ==
    { [error |-> "rpc", result |-> JsNull] }
    \cup
    (IF method \in AccountsMethods
        THEN { [error |-> "none", result |-> JsArray(<<>>)] } \cup
             {[error |-> "none", result |-> JsArray(<<a>>)] : a \in Addresses }
        ELSE { [error |-> "none", result |-> JsString("0x1")] })

\* A response with identifier w arrives on the provider channel: the stream
\* middleware forgets the request and the engine calls back with the caller's
\* identifier restored.
Response(w, outcome) ==
    /\ connectionStream = "open"
    /\ w \in DOMAIN idMap
    /\ idMap' = [x \in DOMAIN idMap \ {w} |-> idMap[x]]
    /\ last' = [Did("response", <<>>) EXCEPT
                    !.payload = [NoPayload EXCEPT !.method = idMap[w].method,
                                                  !.id = idMap[w].id],
                    !.callback =
                        IF idMap[w].cb = "user"
                           THEN [called |-> TRUE, id |-> idMap[w].id,
                                 method |-> idMap[w].method,
                                 error |-> outcome.error, result |-> outcome.result]
                           ELSE NoCallback]
    /\ UNCHANGED <<isConnected, accounts, chainId, networkVersion, publicConfigStore,
                   connectionStream, connectTimer, pumpsEnded, nextId, closeCount>>
    /\ UNCHANGED experimentalVars

----------------------------------------------------------------------------
(* Other inbound frames.                                                   *)

\* The object that is `this` inside the listener of the 'notification' event.
\* The listener is a function expression, not an arrow function: its `this` is
\* the emitter that calls it, jsonRpcConnection.events.
NotificationThis == "jsonRpcConnection.events"

\* The events the provider itself emits for a notification: the listener calls
\* this.emit('data', null, payload).
NotificationEvents(payload) ==
    IF NotificationThis = "provider" THEN <<Event("data", payload)>> ELSE <<>>

\* The notifications the background sends on the provider channel.
Notifications == {"eth_subscription"}

\* A frame that answers no pending request arrives on the provider channel:
\* the stream middleware emits 'notification' on jsonRpcConnection.events.
Notification(payload) ==
    /\ connectionStream = "open"
    /\ last' = [Did("notification", NotificationEvents(payload)) EXCEPT
                    !.payload = [NoPayload EXCEPT !.method = payload]]
    /\ UNCHANGED <<isConnected, accounts, chainId, networkVersion, publicConfigStore,
                   connectionStream, connectTimer, pumpsEnded, idMap, nextId,
                   closeCount>>
    /\ UNCHANGED experimentalVars

\* Route with the phishing channel piped into the public config store.
RoutePhishingToStore(channel) ==
    CASE channel \in {"publicConfig", "phishing"} -> "store"
      [] channel = "provider" -> "rpc"
      [] OTHER -> "orphan"

\* Where the multiplexer sends the frames of a channel: createStream gives the
\* channel a consumer, ignoreStream drops its frames.
Route(channel) ==
    CASE channel = "publicConfig" -> "store"
      [] channel = "provider" -> "rpc"
      [] channel = "phishing" -> "ignored"
      [] OTHER -> "orphan"

\* The frames the background sends on the phishing channel.
PhishingFrames ==
    [chainId : {"0x3"}, networkVersion : {"3", ABSENT}, selectedAddress : {NULL},
     isUnlocked : {ABSENT}]

\* A frame arrives on the phishing channel.
PhishingFrame(frame) ==
    IF Route("phishing") = "store"
       THEN PutState(frame)
       ELSE /\ connectionStream = "open"
            /\ last' = Did("phishing", <<>>)
            /\ UNCHANGED <<isConnected, accounts, chainId, networkVersion,
                           publicConfigStore, connectionStream, connectTimer,
                           pumpsEnded, idMap, nextId, closeCount>>
            /\ UNCHANGED experimentalVars

----------------------------------------------------------------------------
(* The experimental API, this._metamask.                                   *)

\* IsUnlockedKnown with the test left out.
IsUnlockedKnownAlways(value) == TRUE

\* Whether isUnlocked() answers at once: instance._state.isUnlocked !== undefined.
IsUnlockedKnown(value) == value # UNDEFINED

\* _metamask.isUnlocked(): if the status is unknown the call registers a
\* once('update') listener on the store and waits, else it resolves with the
\* status.
IsUnlocked ==
    /\ IF IsUnlockedKnown(isUnlocked)
          THEN /\ last' = [Did("isUnlocked", <<>>) EXCEPT !.resolved = <<isUnlocked>>]
               /\ UNCHANGED unlockWaiters
          ELSE /\ unlockWaiters < MaxWaiters
               /\ unlockWaiters' = unlockWaiters + 1
               /\ last' = Did("isUnlocked", <<>>)
    /\ UNCHANGED <<isConnected, accounts, chainId, networkVersion, publicConfigStore,
                   connectionStream, connectTimer, pumpsEnded, idMap, nextId,
                   closeCount, isUnlocked, batches, batchCount>>

\* The methods of the requests of a batch.
BatchMethods == {"eth_call", "eth_accounts"}

\* The arrays of at most MaxBatchLen requests.
RequestArrays ==
    UNION {[1..n -> BatchMethods] : n \in 0..MaxBatchLen}

\* What the page passes to sendBatch: an array of requests, or something that
\* is no array.
BatchArguments ==
    {[isArray |-> TRUE, error |-> "none", items |-> items] : items \in RequestArrays}
    \cup {NoBatch}

\* BatchHandleCalls with one call of the engine for each request.
BatchHandleCallsPerElement(requests) ==
    [i \in 1..Len(requests) |-> <<requests[i]>>]

\* The payloads _sendAsync(requests, cb) passes to rpcEngine.handle when
\* requests is an array: the array, once.
BatchHandleCalls(requests) == <<requests>>

\* _metamask.sendBatch(requests).
SendBatch(requests) ==
    /\ IF ~requests.isArray
          THEN /\ last' = [Did("sendBatch", <<>>) EXCEPT
                              !.batch = requests,
                              !.promise = [NoPromise EXCEPT !.state = "rejected",
                                                            !.error = "invalidRequest"]]
               /\ UNCHANGED <<batches, batchCount>>
          ELSE /\ batchCount < MaxBatches
               /\ batches' = batches \o BatchHandleCalls(requests.items)
               /\ batchCount' = batchCount + 1
               /\ last' = [Did("sendBatch", <<>>) EXCEPT
                              !.batch = requests,
                              !.handled = TRUE,
                              !.engineCalls = BatchHandleCalls(requests.items)]
    /\ UNCHANGED <<isConnected, accounts, chainId, networkVersion, publicConfigStore,
                   connectionStream, connectTimer, pumpsEnded, idMap, nextId,
                   closeCount, isUnlocked, unlockWaiters>>

\* What the engine passes to the callback of a batch: an error, or an array
\* with one response for each request, each a result or an error.
BatchAnswers(requests) ==
    {[isArray |-> TRUE, error |-> "none", items |-> items] :
        items \in [1..Len(requests) -> {"result", "error"}]}
    \cup {[isArray |-> FALSE, error |-> "engine", items |-> <<>>]}

\* GetRpcPromiseCallback without the test for an array.
GetRpcPromiseCallbackNoArray(answer) ==
    IF answer.error # "none"
       THEN [NoPromise EXCEPT !.state = "rejected", !.error = answer.error]
       ELSE [NoPromise EXCEPT !.state = "resolved"]

\* getRpcPromiseCallback(resolve, reject)(error, response): reject with the
\* error, resolve with the response if it is an array, else with its result.
GetRpcPromiseCallback(answer) ==
    IF answer.error # "none"
       THEN [NoPromise EXCEPT !.state = "rejected", !.error = answer.error]
       ELSE IF answer.isArray
               THEN [NoPromise EXCEPT !.state = "resolved", !.isArray = TRUE,
                                      !.items = answer.items]
               ELSE [NoPromise EXCEPT !.state = "resolved"]

\* The engine answers the i-th pending batch and the promise of sendBatch
\* settles.
BatchAnswer(i, answer) ==
    /\ connectionStream = "open"
    /\ i \in 1..Len(batches)
    /\ batches' = [j \in 1..(Len(batches) - 1) |->
                      IF j < i THEN batches[j] ELSE batches[j + 1]]
    /\ last' = [Did("batchAnswer", <<>>) EXCEPT
                    !.batch = answer,
                    !.promise = GetRpcPromiseCallback(answer)]
    /\ UNCHANGED <<isConnected, accounts, chainId, networkVersion, publicConfigStore,
                   connectionStream, connectTimer, pumpsEnded, idMap, nextId,
                   closeCount, isUnlocked, unlockWaiters, batchCount>>

----------------------------------------------------------------------------

Next ==
    \/ EmitConnect
    \/ ConnectionLost
    \/ \E streamName \in PumpNames : HandleDisconnect(streamName)
    \/ \E state \in Snapshots : PutState(state)
    \/ \E payload \in AsyncPayloads : SendAsync(payload)
    \/ \E payload \in SyncPayloads : SendSync(payload)
    \/ \E w \in DOMAIN idMap : \E outcome \in Outcomes(idMap[w].method) :
          Response(w, outcome)
    \/ \E payload \in Notifications : Notification(payload)
    \/ \E frame \in PhishingFrames : PhishingFrame(frame)

Spec == Init /\ [][Next]_vars

\* The provider whose page only asks for the unlock status.
NextUnlock ==
    \/ EmitConnect
    \/ ConnectionLost
    \/ \E streamName \in PumpNames : HandleDisconnect(streamName)
    \/ \E state \in UnlockSnapshots : PutState(state)
    \/ IsUnlocked

SpecUnlock == Init /\ [][NextUnlock]_vars

\* The provider whose page only sends batches.
NextBatch ==
    \/ EmitConnect
    \/ ConnectionLost
    \/ \E streamName \in PumpNames : HandleDisconnect(streamName)
    \/ \E requests \in BatchArguments : SendBatch(requests)
    \/ \E i \in 1..Len(batches) : \E answer \in BatchAnswers(batches[i]) :
          BatchAnswer(i, answer)

SpecBatch == Init /\ [][NextBatch]_vars

\* What the event loop guarantees: a timer that is due runs, and a pump whose
\* stream has ended calls its callback.
FairSpec ==
    /\ Spec
    /\ WF_vars(EmitConnect)
    /\ \A streamName \in PumpNames : WF_vars(HandleDisconnect(streamName))

----------------------------------------------------------------------------
(* The claims.                                                             *)

\* C1: when the connection is lost the provider emits `close` exactly once,
\* whatever the order of the scheduled `connect` and the two disconnect
\* callbacks: once both callbacks have run, one `close` has been emitted.
C1_CloseExactlyOnce ==
    pumpsEnded = PumpNames => closeCount = 1

\* C2: the connection state is unknown at construction, and once it is
\* disconnected no later event sets it back.
C2_DisconnectedIsTerminal ==
    [][/\ (last.op = "constructor" => isConnected = UNDEFINED)
       /\ (isConnected = "false" => isConnected' = "false")]_vars

\* C3: a request issued with a callback after the provider was told of the
\* disconnection is not handed to the engine and its callback gets a disconnect
\* error at once.
C3_FailsAfterClose ==
    (last.op = "sendAsync" /\ pumpsEnded # {})
        => /\ ~last.handled
           /\ last.callback.called
           /\ last.callback.error = "disconnected"

\* C4: a request that is in flight when the connection is lost is eventually
\* resolved (its callback called with a disconnect error) and leaves the table
\* of pending requests.
C4_InFlightFailsOnLoss ==
    \A w \in 1..MaxRequests :
        (last.op = "lost" /\ w \in DOMAIN idMap) ~> (w \notin DOMAIN idMap)

\* C5: send(payload) without a callback answers eth_accounts, eth_coinbase and
\* net_version from the cached state alone: [address] or [], the address or
\* null, the network id or null, under the payload's id and jsonrpc, and hands
\* nothing to the engine.
C5_SyncReadsCachedState ==
    (last.op = "sendSync"
        /\ last.payload.method \in {"eth_accounts", "eth_coinbase", "net_version"})
    => LET address == publicConfigStore.selectedAddress
           expected ==
               CASE last.payload.method = "eth_accounts" ->
                        IF address \in Addresses THEN JsArray(<<address>>)
                                                 ELSE JsArray(<<>>)
                 [] last.payload.method = "eth_coinbase" ->
                        IF address \in Addresses THEN JsString(address) ELSE JsNull
                 [] last.payload.method = "net_version" ->
                        IF networkVersion \in NetworkVersions
                           THEN JsString(networkVersion) ELSE JsNull
       IN  /\ last.return = [kind |-> "return", id |-> last.payload.id,
                             jsonrpc |-> last.payload.jsonrpc, result |-> expected]
           /\ ~last.handled

C5_Witness ==
    /\ last.op = "sendSync"
    /\ last.payload.method = "eth_accounts"
    /\ publicConfigStore.selectedAddress = "0xabc"
    /\ last.return.result = JsArray(<<"0xabc">>)

\* C6: send(payload) without a callback for a method outside the four of the
\* table throws, hands nothing to the engine and changes nothing of the
\* provider.
C6_UnsupportedSyncThrows ==
    [][(last'.op = "sendSync"
           /\ last'.payload.method \notin {"eth_accounts", "eth_coinbase",
                                            "net_version", "eth_uninstallFilter"})
       => /\ last'.return.kind = "throw"
          /\ ~last'.handled
          /\ UNCHANGED <<isConnected, accounts, chainId, networkVersion,
                         publicConfigStore, connectionStream, connectTimer,
                         pumpsEnded, idMap, nextId, closeCount>>]_vars

C6_Witness ==
    /\ last.op = "sendSync"
    /\ last.payload.method = "eth_sendTransaction"
    /\ last.return.kind = "throw"
    /\ idMap # <<>>

\* C7: for every snapshot, chainChanged (networkChanged) is emitted if and only
\* if the snapshot carries chainId (networkVersion) with a value other than the
\* one held before; the same snapshot delivered again emits nothing.
C7_ChangeEventIffDifferent ==
    [][last'.op = "update"
       => /\ Count(last'.emitted, "chainChanged") =
                (IF publicConfigStore'.chainId \in ChainIds
                    /\ publicConfigStore'.chainId # chainId THEN 1 ELSE 0)
          /\ Count(last'.emitted, "networkChanged") =
                (IF publicConfigStore'.networkVersion \in NetworkVersions
                    /\ publicConfigStore'.networkVersion # networkVersion THEN 1 ELSE 0)
          /\ (publicConfigStore' = publicConfigStore => last'.emitted = <<>>)]_vars

C7_Witness ==
    /\ last.op = "update"
    /\ last.emitted = <<>>
    /\ publicConfigStore.chainId = "0x3"
    /\ publicConfigStore.networkVersion = "3"

\* C8: the first value of chainId or networkVersion, replacing the unknown
\* value of the constructor, emits no chainChanged, chainIdChanged or
\* networkChanged.
C8_FirstSnapshotIsSilent ==
    [][last'.op = "update"
       => /\ (chainId = UNDEFINED
                => /\ Count(last'.emitted, "chainChanged") = 0
                   /\ Count(last'.emitted, "chainIdChanged") = 0)
          /\ (networkVersion = UNDEFINED
                => Count(last'.emitted, "networkChanged") = 0)]_vars

\* C9: a response to eth_accounts or eth_requestAccounts sent through sendAsync
\* updates the cached account list, and emits accountsChanged when the list
\* changed, in the step that calls the caller's callback.
C9_AccountsBookkeeping ==
    [][(last'.op = "response"
           /\ last'.callback.called
           /\ last'.callback.method \in AccountsMethods)
       => /\ accounts' = [defined |-> TRUE, list |-> last'.callback.result.items]
          /\ (accounts' # accounts => Count(last'.emitted, "accountsChanged") = 1)]_vars

\* C10: a request whose method is no non-empty string, or whose params are
\* neither an object nor an array, is rejected at once and is not handed to the
\* engine.
C10_MalformedNeverHandled ==
    (last.op = "sendAsync"
        /\ (~Truthy(last.payload.method)
               \/ last.payload.params \notin {ABSENT, "array", "object"}))
    => ~last.handled

\* C14: a notification arriving on the provider channel makes the provider
\* itself emit exactly one `data` event carrying the payload.
C14_NotificationEmitsData ==
    last.op = "notification"
        => last.emitted = <<Event("data", last.payload.method)>>

\* C15: every request handed to the engine goes on the wire under an
\* identifier no request in flight has, also when the caller's identifier is
\* the one of a request in flight, and a response calls the callback of the
\* request it answers with the caller's identifier restored.
C15_RemapRoundTrip ==
    [][/\ (last'.op = "sendAsync"
            => \E w \in DOMAIN idMap' \ DOMAIN idMap :
                  /\ DOMAIN idMap' = DOMAIN idMap \cup {w}
                  /\ idMap'[w].id = last'.payload.id
                  /\ idMap'[w].method = last'.payload.method
                  /\ \A x \in DOMAIN idMap : idMap'[x] = idMap[x])
       /\ ((last'.op = "response" /\ last'.callback.called)
            => \E w \in DOMAIN idMap \ DOMAIN idMap' :
                  /\ DOMAIN idMap' = DOMAIN idMap \ {w}
                  /\ last'.callback.id = idMap[w].id
                  /\ last'.callback.method = idMap[w].method
                  /\ \A x \in DOMAIN idMap' : idMap'[x] = idMap[x])]_vars

C15_Witness ==
    /\ last.op = "response"
    /\ last.callback.called
    /\ last.callback.id = 1
    /\ last.callback.method = "eth_call"
    /\ DOMAIN idMap = {1}
    /\ idMap[1].id = 1
    /\ idMap[1].method = "eth_accounts"
    /\ nextId = 3

\* C16: `connect` is emitted once, by the scheduled emission and not by the
\* constructor: when the constructor returns nothing was emitted and the state
\* is unknown, and the state becomes connected only in the step that emits
\* `connect`.
C16_ConnectOnceAndScheduled ==
    [][/\ (last.op = "constructor"
            => /\ isConnected = UNDEFINED
               /\ connectTimer = "scheduled"
               /\ last.emitted = <<>>)
       /\ (Count(last'.emitted, "connect") > 0
            => /\ Count(last'.emitted, "connect") = 1
               /\ connectTimer = "scheduled"
               /\ connectTimer' = "fired")
       /\ (connectTimer = "fired" => connectTimer' = "fired")
       /\ ((isConnected # "true" /\ isConnected' = "true")
            => Count(last'.emitted, "connect") = 1)]_vars

C16_Witness ==
    /\ last.op = "connect"
    /\ last.emitted = <<Event("connect", UNDEFINED)>>
    /\ connectTimer = "fired"
    /\ isConnected = "true"

\* C17: a disconnect notification that finds the provider disconnected emits
\* no `close` and leaves it disconnected, and `close` is emitted at most once
\* in all.
C17_DisconnectIdempotent ==
    [][/\ closeCount <= 1
       /\ ((last'.op = "disconnect" /\ isConnected = "false")
            => /\ last'.emitted = <<>>
               /\ isConnected' = "false"
               /\ closeCount' = closeCount)]_vars

C17_Witness ==
    /\ last.op = "disconnect"
    /\ last.emitted = <<>>
    /\ pumpsEnded = PumpNames
    /\ closeCount = 1
    /\ isConnected = "false"

\* C18: a frame on the phishing channel, whatever it carries, emits nothing
\* and changes neither the public state nor the connection state.
C18_PhishingNeverSurfaces ==
    [][(\E frame \in PhishingFrames : PhishingFrame(frame))
       => /\ last'.emitted = <<>>
          /\ UNCHANGED <<isConnected, accounts, chainId, networkVersion,
                         publicConfigStore, connectionStream, connectTimer,
                         pumpsEnded, idMap, nextId, closeCount, isUnlocked,
                         unlockWaiters, batches, batchCount>>]_vars

C18_Witness ==
    /\ last.op = "phishing"
    /\ chainId = "0x1"
    /\ networkVersion = "1"
    /\ isConnected = "true"

\* C20: send(payload) without a callback for eth_uninstallFilter hands one
\* request to the engine and returns {id, jsonrpc, result: true} in the same
\* step, while the request is still pending; the response that arrives later
\* reaches no caller.
C20_UninstallFilterReturnsTrue ==
    [][/\ ((last'.op = "sendSync" /\ last'.payload.method = "eth_uninstallFilter")
            => /\ last'.return = [kind |-> "return", id |-> last'.payload.id,
                                  jsonrpc |-> last'.payload.jsonrpc, result |-> JsTrue]
               /\ nextId' = nextId + 1
               /\ \E w \in DOMAIN idMap' \ DOMAIN idMap :
                     /\ DOMAIN idMap' = DOMAIN idMap \cup {w}
                     /\ idMap'[w].method = "eth_uninstallFilter"
                     /\ idMap'[w].cb = "noop")
       /\ ((last'.op = "response" /\ last'.payload.method = "eth_uninstallFilter")
            => /\ ~last'.callback.called
               /\ last'.return = NoReturn)]_vars

C20_Witness ==
    /\ last.op = "sendSync"
    /\ last.payload.method = "eth_uninstallFilter"
    /\ last.return.result = JsTrue
    /\ \E w \in DOMAIN idMap : idMap[w].cb = "noop"
    /\ connectionStream = "lost"

C12_SendBatchOneHandleCall ==
    [][last'.op = "sendBatch"
       => IF last'.batch.isArray
             THEN /\ last'.engineCalls = <<last'.batch.items>>
                  /\ batches' = Append(batches, last'.batch.items)
                  /\ last'.promise.state = "none"
             ELSE /\ last'.engineCalls = <<>>
                  /\ ~last'.handled
                  /\ batches' = batches
                  /\ last'.promise.state = "rejected"
                  /\ last'.promise.error = "invalidRequest"]_vars

C12_Witness ==
    /\ last.op = "sendBatch"
    /\ last.batch.isArray
    /\ Len(last.batch.items) = 3
    /\ Len(batches) = 1
    /\ Len(batches[1]) = 3

\* C13: when the engine answers a batch with an array and no error, the
\* promise of sendBatch resolves with that array, element for element, also
\* when elements are errors; when the engine reports an error it rejects.
C13_BatchResolvesWithArray ==
    last.op = "batchAnswer"
        => IF last.batch.error = "none"
              THEN /\ last.promise.state = "resolved"
                   /\ last.promise.isArray
                   /\ last.promise.items = last.batch.items
              ELSE /\ last.promise.state = "rejected"
                   /\ last.promise.error = last.batch.error

C13_Witness ==
    /\ last.op = "batchAnswer"
    /\ last.promise.state = "resolved"
    /\ last.promise.items = <<"result", "error", "result">>
    /\ batches = <<>>

\* C19: isUnlocked() resolves with the unlock status of the wallet: once the
\* store holds a snapshot that carries isUnlocked, the calls that resolve get
\* that value.
C19_IsUnlockedReflectsSnapshot ==
    (last.resolved # <<>> /\ publicConfigStore.isUnlocked \in {"true", "false"})
        => \A i \in 1..Len(last.resolved) :
              last.resolved[i] = publicConfigStore.isUnlocked

\* C21: the held chainId and networkVersion are last-write-wins for each key:
\* an update whose snapshot carries the key leaves the held value equal to the
\* carried one, an update whose snapshot lacks the key and every other step
\* leave it as it was (so, by induction from the unknown values of the
\* constructor, each equals the value of the most recent snapshot that carried
\* its key); and each chainChanged is followed at once by a chainIdChanged
\* with the same value, both before any networkChanged of the same snapshot.
C21_LastWriteWinsPerKey ==
    [][/\ chainId' = (IF last'.op = "update" /\ HasKey(publicConfigStore', "chainId")
                         THEN publicConfigStore'.chainId ELSE chainId)
       /\ networkVersion' =
              (IF last'.op = "update" /\ HasKey(publicConfigStore', "networkVersion")
                  THEN publicConfigStore'.networkVersion ELSE networkVersion)
       /\ (last'.op # "update" => publicConfigStore' = publicConfigStore)
       /\ \A i \in 1..Len(last'.emitted) :
             /\ (last'.emitted[i].name = "chainChanged"
                   => /\ i < Len(last'.emitted)
                      /\ last'.emitted[i + 1] =
                             Event("chainIdChanged", last'.emitted[i].data)
                      /\ last'.emitted[i].data = chainId')
             /\ (last'.emitted[i].name = "chainIdChanged"
                   => /\ i > 1
                      /\ last'.emitted[i - 1].name = "chainChanged")
             /\ (last'.emitted[i].name = "networkChanged"
                   => /\ last'.emitted[i].data = networkVersion'
                      /\ \A j \in 1..Len(last'.emitted) :
                            last'.emitted[j].name \in {"chainChanged", "chainIdChanged"}
                               => j < i)]_vars

C21_Witness ==
    /\ last.op = "update"
    /\ publicConfigStore.chainId = "0x3"
    /\ publicConfigStore.networkVersion = ABSENT
    /\ chainId = "0x3"
    /\ networkVersion = "1"
    /\ last.emitted = <<Event("chainChanged", "0x3"), Event("chainIdChanged", "0x3")>>

====
